---- MODULE Spec2Model ----
(***************************************************************************)
(* A model of the PlantUML-to-DDL converter (src/try.py and its            *)
(* single-dialect predecessor src/ddlgeneratot.py).                        *)
(*                                                                         *)
(* Part I models a run of main() of try.py against the file system: the    *)
(* three source documents, schema_version.json, the generated DDL files    *)
(* and combined_model.puml.  Document contents are abstract values; a      *)
(* fingerprint is an injective image of the content.                       *)
(***************************************************************************)
EXTENDS Integers, Sequences, FiniteSets, TLC

(* ------------------------------ bounds --------------------------------- *)
\* distinct contents a source document can take (0 stands for "no file")
MaxContent == 2
\* invocations of main() in one behaviour
MaxRuns == 2
\* external modifications of the source documents in one behaviour
MaxEdits == 2
\* external modifications while two invocations may overlap
MaxConcEdits == 1

(* --------------------------- the file system --------------------------- *)
\* input_files of main(), in the order the code walks them
input_files == <<"attributes.pu", "tables.pu", "er.md">>

Files == {input_files[i] : i \in 1..Len(input_files)}

Missing == 0

Contents == 1..MaxContent

Procs == {1, 2}

VARIABLES
    docs,           \* the source documents on disk: Files -> Contents \cup {Missing}
    version_file,   \* schema_version.json: [exists, data]
    ddl_files,      \* the V<version>__<timestamp>__create_schema_<dialect>.sql files
    combined_model, \* combined_model.puml: [exists, content]
    clock,          \* datetime.now(); advances with every invocation
    run,            \* per invocation of main(): its position and locals
    prev,           \* what the previous invocation did (history)
    issued,         \* versions passed to update_version_info by committed runs (history)
    nedits          \* external modifications so far

runVars == <<docs, version_file, ddl_files, combined_model, clock, run, prev, issued, nedits>>

\* Part II: a PumlToDDLConverter object and the texts handed to it
VARIABLES
    source,         \* the three source texts, as lists of lines and blocks
    phase,          \* "authoring", "parsed", "generated"
    conv,           \* the converter: dialect, attributes, tables, relationships
    ddl,            \* what generate_ddl returned
    typed           \* a call of convert_data_type: dialect, argument, result

convVars == <<source, phase, conv, ddl, typed>>

vars == <<runVars, convVars>>

(* ----------------------------- VersionTracker -------------------------- *)
NoHash == <<"none", 0>>

\* hashlib.sha256(content).hexdigest(): distinct contents, distinct digests
calculate_file_hash(c) == <<"sha256", c>>

DefaultVersionInfo ==
    [last_version |-> 0, file_hashes |-> [f \in Files |-> NoHash], last_generated |-> 0]

AbsentVersionFile == [exists |-> FALSE, data |-> DefaultVersionInfo]

load_version_info(vf) == IF vf.exists THEN vf.data ELSE DefaultVersionInfo

save_version_info(info) == [exists |-> TRUE, data |-> info]

\* The loop of files_have_changed from position i on: "raise" when a document
\* cannot be opened, "true" at the first path whose stored digest differs.
RECURSIVE HashLoop(_, _, _, _)
HashLoop(files, i, old_hashes, d) ==
    IF i > Len(files) THEN "false"
    ELSE IF d[files[i]] = Missing THEN "raise"
    ELSE IF old_hashes[files[i]] # calculate_file_hash(d[files[i]]) THEN "true"
    ELSE HashLoop(files, i + 1, old_hashes, d)

files_have_changed_first_only(files, vf, d) ==
    IF d[files[1]] = Missing THEN "raise"
    ELSE IF load_version_info(vf).file_hashes[files[1]] # calculate_file_hash(d[files[1]])
         THEN "true" ELSE "false"

files_have_changed(files, vf, d) ==
    HashLoop(files, 1, load_version_info(vf).file_hashes, d)

get_next_version_stale(vf) == load_version_info(vf).last_version

get_next_version(vf) == load_version_info(vf).last_version + 1

\* update_version_info up to the save: every document can be opened for
\* hashing (otherwise calculate_file_hash raises before anything is saved).
CanHashAll(files, d) == \A i \in 1..Len(files) : d[files[i]] # Missing

new_version_info_increment(files, vf, new_version, now, d) ==
    [last_version   |-> load_version_info(vf).last_version + 1,
     file_hashes    |-> [f \in Files |-> calculate_file_hash(d[f])],
     last_generated |-> now]

new_version_info_keeps_hashes(files, vf, new_version, now, d) ==
    [last_version   |-> new_version,
     file_hashes    |-> load_version_info(vf).file_hashes,
     last_generated |-> now]

new_version_info(files, vf, new_version, now, d) ==
    [last_version   |-> new_version,
     file_hashes    |-> [f \in Files |->
                            IF \E i \in 1..Len(files) : files[i] = f
                            THEN calculate_file_hash(d[f]) ELSE NoHash],
     last_generated |-> now]

(* ------------------------------- main() -------------------------------- *)
\* combine_files, parse_combined_content and generate_ddl as one function of
\* what was read (Part II models them in detail; the dialect of the invocation
\* selects the rendering and the suffix of the file name, and nothing else here)
ddl_of(attributes_content, tables_content, er_content) ==
    <<attributes_content, tables_content, er_content>>

combined_of(attributes_content, tables_content, er_content) ==
    <<attributes_content, tables_content, er_content>>

NoRun ==
    [pc |-> "idle", changed |-> "none", next_version |-> 0,
     attributes_content |-> Missing, tables_content |-> Missing, er_content |-> Missing,
     seen |-> [f \in Files |-> Missing], base |-> AbsentVersionFile, edits0 |-> 0,
     wrote_ddl |-> FALSE, saved |-> FALSE, wrote_combined |-> FALSE, failed_access |-> FALSE]

\* what the history keeps of an invocation that has ended
Summary(r) ==
    [pc |-> r.pc, changed |-> r.changed, next_version |-> r.next_version, seen |-> r.seen,
     base |-> r.base, edits0 |-> r.edits0, wrote_ddl |-> r.wrote_ddl, saved |-> r.saved]

Ended == {"idle", "skipped", "done", "failed", "aborted"}

Running(p) == run[p].pc \notin Ended

TypeOK ==
    /\ docs \in [Files -> Contents \cup {Missing}]
    /\ version_file.exists \in BOOLEAN
    /\ clock \in 0..MaxRuns
    /\ nedits \in 0..MaxEdits
    /\ \A p \in Procs : run[p].pc \in Ended \cup
          {"get_version", "read_attributes", "read_tables", "read_er", "write_ddl",
           "update_version", "write_combined"}

StartRecording(p) ==
    /\ run[p].pc \in Ended
    /\ clock < MaxRuns
    /\ clock' = clock + 1
    /\ LET r == files_have_changed(input_files, version_file, docs) IN
         /\ run' = [run EXCEPT ![p] =
                   [NoRun EXCEPT !.changed = r, !.seen = docs,
                                 !.base = version_file, !.edits0 = nedits,
                                 !.failed_access = (r = "raise"),
                                 !.pc = CASE r = "raise" -> "failed"
                                          [] r = "false" -> "skipped"
                                          [] OTHER       -> "get_version"]]
         /\ version_file' =
               IF r = "false"
               THEN save_version_info(
                       [load_version_info(version_file) EXCEPT !.last_generated = clock'])
               ELSE version_file
    /\ prev' = IF run[p].pc = "idle" THEN prev ELSE Summary(run[p])
    /\ UNCHANGED <<docs, ddl_files, combined_model, issued, nedits>>
    /\ UNCHANGED convVars

\* try.py 326-343: a new invocation; its first act is files_have_changed.
Start(p) ==
    /\ run[p].pc \in Ended
    /\ clock < MaxRuns
    /\ clock' = clock + 1
    /\ LET r == files_have_changed(input_files, version_file, docs) IN
         run' = [run EXCEPT ![p] =
                   [NoRun EXCEPT !.changed = r, !.seen = docs,
                                 !.base = version_file, !.edits0 = nedits,
                                 !.failed_access = (r = "raise"),
                                 !.pc = CASE r = "raise" -> "failed"
                                          [] r = "false" -> "skipped"
                                          [] OTHER       -> "get_version"]]
    /\ prev' = IF run[p].pc = "idle" THEN prev ELSE Summary(run[p])
    /\ UNCHANGED <<docs, version_file, ddl_files, combined_model, issued, nedits>>
    /\ UNCHANGED convVars

GetNextVersionReserving(p) ==
    /\ run[p].pc = "get_version"
    /\ run' = [run EXCEPT ![p].next_version = get_next_version(version_file),
                          ![p].pc = "read_attributes"]
    /\ version_file' = save_version_info(
            [load_version_info(version_file) EXCEPT !.last_version = @ + 1])
    /\ UNCHANGED <<docs, ddl_files, combined_model, clock, prev, issued, nedits>>
    /\ UNCHANGED convVars

\* try.py 346
GetNextVersion(p) ==
    /\ run[p].pc = "get_version"
    /\ run' = [run EXCEPT ![p].next_version = get_next_version(version_file),
                          ![p].pc = "read_attributes"]
    /\ UNCHANGED <<docs, version_file, ddl_files, combined_model, clock, prev, issued, nedits>>
    /\ UNCHANGED convVars

\* try.py 349-356: the three documents, one open each
ReadDoc(p, at, f, field, next) ==
    /\ run[p].pc = at
    /\ run' = IF docs[f] = Missing
              THEN [run EXCEPT ![p].pc = "failed", ![p].failed_access = TRUE]
              ELSE [run EXCEPT ![p][field] = docs[f], ![p].pc = next]
    /\ UNCHANGED <<docs, version_file, ddl_files, combined_model, clock, prev, issued, nedits>>
    /\ UNCHANGED convVars

ReadAttributes(p) == ReadDoc(p, "read_attributes", "attributes.pu", "attributes_content", "read_tables")

ReadTables(p) == ReadDoc(p, "read_tables", "tables.pu", "tables_content", "read_er")

ReadEr(p) == ReadDoc(p, "read_er", "er.md", "er_content", "write_ddl")

\* try.py 359-373: combine, parse, generate, write the versioned DDL file
WriteDDL(p) ==
    /\ run[p].pc = "write_ddl"
    /\ LET r    == run[p]
           name == <<r.next_version, clock>>
           text == ddl_of(r.attributes_content, r.tables_content, r.er_content)
       IN ddl_files' = {x \in ddl_files : x.name # name} \cup {[name |-> name, ddl |-> text]}
    /\ run' = [run EXCEPT ![p].wrote_ddl = TRUE, ![p].pc = "update_version"]
    /\ UNCHANGED <<docs, version_file, combined_model, clock, prev, issued, nedits>>
    /\ UNCHANGED convVars

\* try.py 376, 79-88
UpdateVersionInfo(p) ==
    /\ run[p].pc = "update_version"
    /\ IF CanHashAll(input_files, docs)
       THEN /\ version_file' = save_version_info(
                   new_version_info(input_files, version_file, run[p].next_version, clock, docs))
            /\ issued' = Append(issued, run[p].next_version)
            /\ run' = [run EXCEPT ![p].saved = TRUE, ![p].pc = "write_combined"]
       ELSE /\ run' = [run EXCEPT ![p].pc = "failed", ![p].failed_access = TRUE]
            /\ UNCHANGED <<version_file, issued>>
    /\ UNCHANGED <<docs, ddl_files, combined_model, clock, prev, nedits>>
    /\ UNCHANGED convVars

\* try.py 381-382
WriteCombined(p) ==
    /\ run[p].pc = "write_combined"
    /\ combined_model' =
         [exists |-> TRUE,
          content |-> combined_of(run[p].attributes_content, run[p].tables_content,
                                    run[p].er_content)]
    /\ run' = [run EXCEPT ![p].wrote_combined = TRUE, ![p].pc = "done"]
    /\ UNCHANGED <<docs, version_file, ddl_files, clock, prev, issued, nedits>>
    /\ UNCHANGED convVars

\* the run stops where it is: an exception reaching try.py 386, or the process killed
Abort(p) ==
    /\ Running(p)
    /\ run' = [run EXCEPT ![p].pc = "aborted"]
    /\ UNCHANGED <<docs, version_file, ddl_files, combined_model, clock, prev, issued, nedits>>
    /\ UNCHANGED convVars

(* ---------------------------- the operator ----------------------------- *)
EditDoc(f, c) ==
    /\ nedits < MaxEdits
    /\ docs[f] # c
    /\ docs' = [docs EXCEPT ![f] = c]
    /\ nedits' = nedits + 1
    /\ UNCHANGED <<version_file, ddl_files, combined_model, clock, run, prev, issued>>
    /\ UNCHANGED convVars

DeleteDoc(f) ==
    /\ nedits < MaxEdits
    /\ docs[f] # Missing
    /\ docs' = [docs EXCEPT ![f] = Missing]
    /\ nedits' = nedits + 1
    /\ UNCHANGED <<version_file, ddl_files, combined_model, clock, run, prev, issued>>
    /\ UNCHANGED convVars

Step(p) ==
    \/ GetNextVersion(p)
    \/ ReadAttributes(p)
    \/ ReadTables(p)
    \/ ReadEr(p)
    \/ WriteDDL(p)
    \/ UpdateVersionInfo(p)
    \/ WriteCombined(p)
    \/ Abort(p)

Environment ==
    \/ \E f \in Files, c \in Contents : EditDoc(f, c)
    \/ \E f \in Files : DeleteDoc(f)

\* one operator, one invocation at a time
StartAlone(p) == (\A q \in Procs : ~Running(q)) /\ Start(p)

(***************************************************************************)
(* Part II: the converter.  A text is a list of lines, a line a list of    *)
(* whitespace-separated tokens, a token a list of lexemes (a word of \w    *)
(* characters, or a piece of punctuation); the patterns of the code are    *)
(* applied to these lists.                                                 *)
(***************************************************************************)
\* Python's None where a name (a token) is expected
None == <<>>

\* Python's None where a display name or a description is expected
NoText == ""

Punctuation ==
    {"(", ")", "[", "]", "{", "}", ",", "\"", "'", "/'", "'/", "!define", "!include",
     "<<generated>>", "||-o{", "--|>", "--", "o--o", "*--*", " "}

\* \w+
IsWord(x) == x \notin Punctuation

\* \d+
IsDigits(x) == x \in {"1", "4", "36", "50", "255"}

\* str.upper() on the words of the model
Upper(w) ==
    CASE w = "serial"  -> "SERIAL"
      [] w = "varchar" -> "VARCHAR"
      [] w = "text"    -> "TEXT"
      [] w = "int"     -> "INT"
      [] OTHER         -> w

\* 'x' in line, for a lexeme x
Contains(line, x) == \E j \in 1..Len(line) : \E i \in 1..Len(line[j]) : line[j][i] = x

\* re.search(key + r'\((\w+)\)', ...): group 1 of the first match, or None
RECURSIVE KeyInToken(_, _, _)
KeyInToken(key, tok, i) ==
    IF i + 3 > Len(tok) THEN None
    ELSE IF tok[i] = key /\ tok[i + 1] = "(" /\ IsWord(tok[i + 2]) /\ tok[i + 3] = ")"
         THEN <<tok[i + 2]>>
         ELSE KeyInToken(key, tok, i + 1)

RECURSIVE KeyInLine(_, _, _)
KeyInLine(key, line, j) ==
    IF j > Len(line) THEN None
    ELSE IF KeyInToken(key, line[j], 1) # None THEN KeyInToken(key, line[j], 1)
         ELSE KeyInLine(key, line, j + 1)

\* re.search(r'\[(\w+)\]', ...): group 1 of the first match, or None
RECURSIVE BracketInToken(_, _)
BracketInToken(tok, i) ==
    IF i + 2 > Len(tok) THEN None
    ELSE IF tok[i] = "[" /\ IsWord(tok[i + 1]) /\ tok[i + 2] = "]" THEN <<tok[i + 1]>>
         ELSE BracketInToken(tok, i + 1)

RECURSIVE BracketInLine(_, _)
BracketInLine(line, j) ==
    IF j > Len(line) THEN None
    ELSE IF BracketInToken(line[j], 1) # None THEN BracketInToken(line[j], 1)
         ELSE BracketInLine(line, j + 1)

\* dict.get(key, default)
Get(d, key, default) == IF key \in DOMAIN d THEN d[key] ELSE default

\* {}
EmptyDict == [k \in {} |-> NoText]

DefaultType == <<"VARCHAR", "(", "255", ")">>

(* ------------------------- convert_data_type --------------------------- *)
type_mapping ==
    [SERIAL    |-> "NUMBER GENERATED ALWAYS AS IDENTITY",
     BIGSERIAL |-> "NUMBER GENERATED ALWAYS AS IDENTITY",
     VARCHAR   |-> "VARCHAR2",
     TEXT      |-> "CLOB",
     BOOLEAN   |-> "NUMBER(1)",
     TIMESTAMP |-> "TIMESTAMP",
     JSONB     |-> "CLOB",
     UUID      |-> "VARCHAR2(36)",
     BYTEA     |-> "BLOB"]

\* group 2 of r'(\w+)(?:\(([^)]+)\))?' matched at the start of t, whose first
\* lexeme is a word: the lexemes between "(" at 2 and the first ")" after it, when
\* there is at least one; None otherwise
RECURSIVE UpToClose(_, _)
UpToClose(t, i) ==
    IF i > Len(t) THEN 0
    ELSE IF t[i] = ")" THEN i
    ELSE UpToClose(t, i + 1)

SizeInfo(t) ==
    IF Len(t) >= 2 /\ t[2] = "(" /\ UpToClose(t, 3) > 3
    THEN SubSeq(t, 3, UpToClose(t, 3) - 1)
    ELSE None

convert_data_type(dialect, pg_type) ==
    IF dialect = "postgresql" THEN pg_type
    ELSE IF pg_type = <<>> \/ ~IsWord(pg_type[1]) THEN pg_type
    ELSE LET base_type   == Upper(pg_type[1])
             size_info   == SizeInfo(pg_type)
             oracle_type == Get(type_mapping, base_type, base_type)
         IN IF size_info # None /\ oracle_type # "CLOB" /\ oracle_type # "BLOB"
            THEN <<oracle_type, "(">> \o size_info \o <<")">>
            ELSE <<oracle_type>>

(* ---------------------------- combine_files ---------------------------- *)
\* _clean_content drops the @startuml/@enduml lines of each text; the lines of
\* er.md that start with !include are left out
StartsWith(line, x) == line # <<>> /\ line[1][1] = x

combine_files(attributes_content, tables_content, er_content) ==
    [attributes |-> attributes_content,
     tables     |-> tables_content,
     er         |-> SelectSeq(er_content, LAMBDA line : ~StartsWith(line, "!include"))]

(* ------------------------ parse_combined_content ----------------------- *)
\* attribute_pattern on one declaration line:
\* !define <name> <code> [<display name>] <type>(<digits>) /'<description>'/
AttributeMatches(line) ==
    /\ Len(line) >= 5
    /\ line[1] = <<"!define">>
    /\ Len(line[2]) = 1 /\ IsWord(line[2][1])
    /\ Len(line[3]) = 1 /\ IsWord(line[3][1])
    /\ Len(line[4]) = 3 /\ line[4][1] = "[" /\ line[4][3] = "]"
    /\ Len(line[5]) = 4 /\ IsWord(line[5][1]) /\ line[5][2] = "("
                        /\ IsDigits(line[5][3]) /\ line[5][4] = ")"

AttributeOf(line) ==
    [column_code   |-> line[3][1],
     japanese_name |-> line[4][2],
     data_type     |-> line[5],
     description   |-> IF Len(line) >= 6 /\ Len(line[6]) = 3
                          /\ line[6][1] = "/'" /\ line[6][3] = "'/"
                       THEN line[6][2] ELSE NoText]

\* self.attributes[attr_name] = {...}, declaration after declaration
RECURSIVE ParseAttributes(_, _)
ParseAttributes(lines, attributes) ==
    IF lines = <<>> THEN attributes
    ELSE ParseAttributes(Tail(lines),
            IF AttributeMatches(Head(lines))
            THEN [k \in DOMAIN attributes \cup {Head(lines)[2]} |->
                     IF k = Head(lines)[2] THEN AttributeOf(Head(lines)) ELSE attributes[k]]
            ELSE attributes)

Skipped(line) == line = <<<<"--">>>> \/ line = <<>> \/ StartsWith(line, "'")

resolve_bracket_first(attributes, col_name, attr_ref) ==
    IF attr_ref # None /\ attr_ref \in DOMAIN attributes THEN attributes[attr_ref]
    ELSE IF col_name \in DOMAIN attributes THEN attributes[col_name]
    ELSE EmptyDict

\* try.py 216-221: the catalog entry a column takes its details from
resolve(attributes, col_name, attr_ref) ==
    IF col_name \in DOMAIN attributes THEN attributes[col_name]
    ELSE IF attr_ref # None THEN Get(attributes, attr_ref, EmptyDict)
    ELSE EmptyDict

\* try.py 196-231: the Column of one body line
ParseColumnLine(attributes, line) ==
    LET is_primary_key == Contains(line, "primary_key")
        is_foreign_key == Contains(line, "foreign_key")
        col_name == IF is_primary_key THEN KeyInLine("primary_key", line, 1)
                    ELSE IF is_foreign_key THEN KeyInLine("foreign_key", line, 1)
                    ELSE line[1]
        attr_details == resolve(attributes, col_name, BracketInLine(line, 1))
    IN [name           |-> col_name,
        japanese_name  |-> Get(attr_details, "japanese_name", NoText),
        data_type      |-> Get(attr_details, "data_type", DefaultType),
        is_primary_key |-> is_primary_key,
        is_foreign_key |-> is_foreign_key,
        is_generated   |-> Contains(line, "<<generated>>"),
        description    |-> Get(attr_details, "description", NoText)]

RECURSIVE ParseColumns(_, _)
ParseColumns(attributes, body) ==
    IF body = <<>> THEN <<>>
    ELSE IF Skipped(Head(body)) THEN ParseColumns(attributes, Tail(body))
    ELSE <<ParseColumnLine(attributes, Head(body))>> \o ParseColumns(attributes, Tail(body))

\* self.tables[table_name] = Table(...): a dict keeps the place of a key it has
Put(tables, t) ==
    IF \E i \in 1..Len(tables) : tables[i].name = t.name
    THEN [i \in 1..Len(tables) |-> IF tables[i].name = t.name THEN t ELSE tables[i]]
    ELSE Append(tables, t)

RECURSIVE ParseTables(_, _, _)
ParseTables(attributes, blocks, tables) ==
    IF blocks = <<>> THEN tables
    ELSE ParseTables(attributes, Tail(blocks),
            Put(tables, [name          |-> Head(blocks).name,
                         japanese_name |-> Head(blocks).japanese_name,
                         columns       |-> ParseColumns(attributes, Head(blocks).body)]))

\* the lines of the combined text, in order
BlockLines(b) ==
    (IF b.japanese_name = NoText
     THEN << << <<"Table", "(", b.name[1], ",">>, <<"\"", "Label", "\"", ")">>, <<"{">> >> >>
     ELSE << << <<"Table", "(", b.name[1], ",">>, <<"\"", "Label">> >>,
             << <<b.japanese_name, "\"", ")">>, <<"{">> >> >>)
    \o b.body \o << << <<"}">> >> >>

RECURSIVE AllBlockLines(_)
AllBlockLines(blocks) ==
    IF blocks = <<>> THEN <<>> ELSE BlockLines(Head(blocks)) \o AllBlockLines(Tail(blocks))

ContentLines(content) ==
    << << <<"@startuml">>, <<"tables">> >> >>
    \o content.attributes \o AllBlockLines(content.tables) \o content.er
    \o << << <<"@enduml">> >> >>

Operators == {"||-o{", "--|>", "--", "o--o", "*--*"}

\* try.py 236-244
RECURSIVE ParseRelationships(_)
ParseRelationships(lines) ==
    IF lines = <<>> THEN <<>>
    ELSE (IF (\E op \in Operators : Contains(Head(lines), op)) /\ Len(Head(lines)) >= 3
          THEN <<[from_table |-> Head(lines)[1], to_table |-> Head(lines)[3],
                  type |-> Head(lines)[2]]>>
          ELSE <<>>)
         \o ParseRelationships(Tail(lines))

(* ------------------------------ generate_ddl --------------------------- *)
\* comments of try.py 278-283 / 300-305
Comments(column) ==
    (IF column.japanese_name # NoText THEN <<column.japanese_name>> ELSE <<>>)
    \o (IF column.description # NoText THEN <<column.description>> ELSE <<>>)

ColumnDefinition(dialect, column) ==
    [kind      |-> "column",
     name      |-> column.name,
     data_type |-> convert_data_type(dialect, column.data_type),
     identity  |-> column.is_generated,
     comment   |-> IF dialect = "postgresql" THEN Comments(column) ELSE <<>>]

\* try.py 285-286: the names of the primary-key columns, in declaration order
primary_keys(table) ==
    LET pk == SelectSeq(table.columns, LAMBDA c : c.is_primary_key)
    IN [i \in 1..Len(pk) |-> pk[i].name]

\* ', '.join(primary_keys) raises TypeError on a None
JoinRaises(names) == \E i \in 1..Len(names) : names[i] = None

\* try.py 252-308: the text of one table
TableDDL(dialect, table) ==
    [kind   |-> "create",
     table  |-> table.name,
     header |-> IF table.japanese_name = NoText THEN <<>>
                ELSE IF dialect = "oracle" THEN <<"COMMENT ON TABLE", table.japanese_name>>
                ELSE <<"-- Table:", table.japanese_name>>,
     column_definitions |->
        [i \in 1..Len(table.columns) |-> ColumnDefinition(dialect, table.columns[i])]
        \o (IF primary_keys(table) # <<>>
            THEN <<[kind |-> "primary_key", constraint |-> <<"pk_", table.name>>,
                    columns |-> primary_keys(table)]>>
            ELSE <<>>),
     column_comments |->
        IF dialect = "oracle"
        THEN LET with == SelectSeq(table.columns, LAMBDA c : Comments(c) # <<>>)
             IN [i \in 1..Len(with) |-> [column |-> with[i].name, text |-> Comments(with[i])]]
        ELSE <<>>]

Lookup(tables, name) == SelectSeq(tables, LAMBDA t : t.name = name)

\* try.py 312-322: the ALTER TABLE statements of one relationship
alter_statements(tables, relationship) ==
    LET from_table == Lookup(tables, relationship.from_table)
        to_table   == Lookup(tables, relationship.to_table)
    IN IF from_table = <<>> \/ to_table = <<>> THEN <<>>
       ELSE LET fk_columns == SelectSeq(to_table[1].columns, LAMBDA c : c.is_foreign_key)
            IN [i \in 1..Len(fk_columns) |->
                  [kind |-> "alter", table |-> to_table[1].name,
                   constraint |-> <<"fk_", to_table[1].name, from_table[1].name>>,
                   column |-> fk_columns[i].name, references |-> from_table[1].name]]

RECURSIVE AllAlter(_, _)
AllAlter(tables, relationships) ==
    IF relationships = <<>> THEN <<>>
    ELSE alter_statements(tables, Head(relationships)) \o AllAlter(tables, Tail(relationships))

\* try.py 246-324: the statements in the order of the text, or the exception
generate_ddl(c) ==
    IF \E i \in 1..Len(c.tables) : JoinRaises(primary_keys(c.tables[i]))
    THEN [raised |-> TRUE, statements |-> <<>>]
    ELSE [raised |-> FALSE,
          statements |-> [i \in 1..Len(c.tables) |-> TableDDL(c.dialect, c.tables[i])]
                         \o AllAlter(c.tables, c.relationships)]

(* --------------------------- the source texts -------------------------- *)
\* lines of attributes.pu, tables.pu and er.md the model writes
\* total number of lines
MaxDocLines == 3

AttributeLines ==
    { << <<"!define">>, <<"id">>, <<"id_code">>, <<"[", "ID", "]">>,
         <<"serial", "(", "4", ")">> >>,
      << <<"!define">>, <<"EMAIL_ATTR">>, <<"email">>, <<"[", "Email", "]">>,
         <<"VARCHAR", "(", "255", ")">>, <<"/'", "mail", "'/">> >>,
      << <<"!define">>, <<"note">>, <<"note_code">>, <<"[", "Note", "]">>, <<"TEXT">> >> }

BodyLines ==
    { << <<"primary_key", "(", "id", ")">>, <<"[", "EMAIL_ATTR", "]">> >>,
      << <<"code">> >>,
      << <<"foreign_key", "(", "user_id", ")">>, <<"[", "EMAIL_ATTR", "]">> >>,
      << <<"primary_key", "(", "code", ")">>, <<"<<generated>>">> >>,
      << <<"primary_key">>, <<"id">> >>,
      << <<"--">> >>,
      << <<"foreign_key", "(", "id", ")">>, <<"[", "NOPE", "]">> >>,
      << <<"--">>, <<"audit">>, <<"--">> >> }

ErLines ==
    { << <<"users">>, <<"||-o{">>, <<"orders">> >>,
      << <<"orders">>, <<"||-o{">>, <<"users">> >>,
      << <<"users">>, <<"||-o{">>, <<"ghost">> >>,
      << <<"ghost">>, <<"||-o{">>, <<"users">> >>,
      << <<"users">>, <<"--">> >>,
      << <<"orders">>, <<"--|>">>, <<"users">> >> }

\* the tables tables.pu declares, in this order: Table(users, "Label\nUsers_jp"), Table(orders, "Label")
TableHeaders ==
    << [name |-> <<"users">>, japanese_name |-> "Users_jp"],
       [name |-> <<"orders">>, japanese_name |-> NoText] >>

RECURSIVE BodyLinesOf(_)
BodyLinesOf(blocks) ==
    IF blocks = <<>> THEN 0 ELSE Len(Head(blocks).body) + BodyLinesOf(Tail(blocks))

DocLines ==
    Len(source.attributes_content) + BodyLinesOf(source.tables_content) + Len(source.er_content)

NewConverter(dialect) ==
    [dialect |-> dialect, attributes |-> EmptyDict, tables |-> <<>>, relationships |-> <<>>]

NoCall == [dialect |-> "postgresql", pg_type |-> <<>>, result |-> <<>>, returned |-> FALSE]

NoDDL == [raised |-> FALSE, statements |-> <<>>]

AddAttribute(line) ==
    /\ phase = "authoring" /\ DocLines < MaxDocLines
    /\ source' = [source EXCEPT !.attributes_content = Append(@, line)]
    /\ UNCHANGED <<phase, conv, ddl, typed>>
    /\ UNCHANGED runVars

AddTable ==
    /\ phase = "authoring"
    /\ Len(source.tables_content) < Len(TableHeaders)
    /\ LET h == TableHeaders[Len(source.tables_content) + 1]
       IN source' = [source EXCEPT !.tables_content =
                        Append(@, [name |-> h.name, japanese_name |-> h.japanese_name,
                                   body |-> <<>>])]
    /\ UNCHANGED <<phase, conv, ddl, typed>>
    /\ UNCHANGED runVars

AddColumnLine(line) ==
    /\ phase = "authoring" /\ DocLines < MaxDocLines
    /\ source.tables_content # <<>>
    /\ source' = [source EXCEPT !.tables_content[Len(source.tables_content)].body =
                     Append(@, line)]
    /\ UNCHANGED <<phase, conv, ddl, typed>>
    /\ UNCHANGED runVars

AddErLine(line) ==
    /\ phase = "authoring" /\ DocLines < MaxDocLines
    /\ source' = [source EXCEPT !.er_content = Append(@, line)]
    /\ UNCHANGED <<phase, conv, ddl, typed>>
    /\ UNCHANGED runVars

\* try.py 164-244 on the text of combine_files, by a converter just constructed
parse_combined_content(c, content) ==
    LET attributes == ParseAttributes(content.attributes, c.attributes)
    IN [c EXCEPT !.attributes    = attributes,
                 !.tables        = ParseTables(attributes, content.tables, c.tables),
                 !.relationships = c.relationships \o ParseRelationships(ContentLines(content))]

\* try.py 337, 359-362
Parse(dialect) ==
    /\ phase = "authoring"
    /\ conv' = parse_combined_content(NewConverter(dialect),
                  combine_files(source.attributes_content, source.tables_content,
                                source.er_content))
    /\ phase' = "parsed"
    /\ UNCHANGED <<source, ddl, typed>>
    /\ UNCHANGED runVars

\* try.py 365
Generate ==
    /\ phase = "parsed"
    /\ ddl' = generate_ddl(conv)
    /\ phase' = "generated"
    /\ UNCHANGED <<source, conv, typed>>
    /\ UNCHANGED runVars

(* ------------------- calls of convert_data_type ------------------------ *)
TypeWords ==
    {"SERIAL", "BIGSERIAL", "VARCHAR", "TEXT", "BOOLEAN", "TIMESTAMP", "JSONB", "UUID",
     "BYTEA", "INT", "DOUBLE", "serial", "varchar", "text", "int"}

TypeSuffixes == {<<>>, <<"(", "50", ")">>, <<"(", "10", ",", "2", ")">>, <<"(", ")">>}

TypeTails == {<<>>, <<" ", "PRECISION">>}

PgTypes ==
    {<<w>> \o s \o t : w \in TypeWords, s \in TypeSuffixes, t \in TypeTails}
    \cup {<<>>, <<"(", "50", ")">>}

ConvertDataType ==
    /\ ~typed.returned
    /\ typed' = [typed EXCEPT !.result = convert_data_type(typed.dialect, typed.pg_type),
                              !.returned = TRUE]
    /\ UNCHANGED <<source, phase, conv, ddl>>
    /\ UNCHANGED runVars

(* --------------------------- specifications ---------------------------- *)
Init ==
    /\ docs = [f \in Files |-> 1]
    /\ version_file = AbsentVersionFile
    /\ ddl_files = {}
    /\ combined_model = [exists |-> FALSE, content |-> <<Missing, Missing, Missing>>]
    /\ clock = 0
    /\ run = [p \in Procs |-> NoRun]
    /\ prev = Summary(NoRun)
    /\ issued = <<>>
    /\ nedits = 0
    /\ source = [attributes_content |-> <<>>, tables_content |-> <<>>, er_content |-> <<>>]
    /\ phase = "authoring"
    /\ conv = NewConverter("postgresql")
    /\ ddl = NoDDL
    /\ typed = NoCall

Next ==
    \/ StartAlone(1)
    \/ Step(1)
    \/ Environment

Spec == Init /\ [][Next]_vars

\* two invocations against the same directory, each made once, not coordinated
StartOnce(p) == run[p].pc = "idle" /\ Start(p)

NextConc ==
    \/ \E p \in Procs : StartOnce(p)
    \/ \E p \in Procs : Step(p)
    \/ (nedits < MaxConcEdits /\ Environment)

SpecConc == Init /\ [][NextConc]_vars

\* a converter on texts of up to MaxDocLines lines
NextConv ==
    \/ \E line \in AttributeLines : AddAttribute(line)
    \/ AddTable
    \/ \E line \in BodyLines : AddColumnLine(line)
    \/ \E line \in ErLines : AddErLine(line)
    \/ \E dialect \in {"postgresql", "oracle"} : Parse(dialect)
    \/ Generate

SpecConv == Init /\ [][NextConv]_vars

\* one call of convert_data_type
InitTypes ==
    /\ docs = [f \in Files |-> 1]
    /\ version_file = AbsentVersionFile
    /\ ddl_files = {}
    /\ combined_model = [exists |-> FALSE, content |-> <<Missing, Missing, Missing>>]
    /\ clock = 0
    /\ run = [p \in Procs |-> NoRun]
    /\ prev = Summary(NoRun)
    /\ issued = <<>>
    /\ nedits = 0
    /\ typed \in [dialect : {"postgresql", "oracle"}, pg_type : PgTypes,
                  result : {<<>>}, returned : {FALSE}]
    /\ source = [attributes_content |-> <<>>, tables_content |-> <<>>, er_content |-> <<>>]
    /\ phase = "authoring"
    /\ conv = NewConverter("postgresql")
    /\ ddl = NoDDL

SpecTypes == InitTypes /\ [][ConvertDataType]_vars

(***************************************************************************)
(* Properties of a run (Part I)                                            *)
(***************************************************************************)
StoredHash(vf, f) == load_version_info(vf).file_hashes[f]

\* some path is new to the stored state, or its content's digest differs from the stored one
SomePathDiffers(vf, d) ==
    \E f \in Files : d[f] # Missing /\ StoredHash(vf, f) # calculate_file_hash(d[f])

DDLOf(d) == ddl_of(d["attributes.pu"], d["tables.pu"], d["er.md"])

\* C1: from an absent version file, the versions that completed runs pass to
\* update_version_info are 1, 2, ..., N in this order; the version in the name of
\* the DDL file of a committed run is the one it committed; and no run that found
\* a document modified against the stored fingerprints is skipped.
C1_MonotonicVersions ==
    /\ \A i \in 1..Len(issued) : issued[i] = i
    /\ load_version_info(version_file).last_version = Len(issued)
    /\ \A p \in Procs :
         /\ run[p].saved =>
              /\ run[p].next_version = Len(issued)
              /\ \E x \in ddl_files : x.name[1] = run[p].next_version
         /\ run[p].pc = "skipped" => ~SomePathDiffers(run[p].base, run[p].seen)

C1_Witness ==
    /\ issued = <<1, 2>>
    /\ run[1].pc = "done"
    /\ prev.pc = "done"
    /\ run[1].seen # prev.seen

\* C2: a run over documents that have not been modified since a run that completed
\* and committed began finds no change, returns at once and writes nothing; the DDL
\* on disk for these documents stays the one the first run generated from them.
C2_Idempotent ==
    \A p \in Procs :
        (prev.pc = "done" /\ run[p].pc # "idle" /\ run[p].edits0 = prev.edits0) =>
            /\ run[p].changed = "false"
            /\ run[p].pc = "skipped"
            /\ ~run[p].wrote_ddl /\ ~run[p].saved /\ ~run[p].wrote_combined
            /\ version_file = run[p].base
            /\ \E x \in ddl_files :
                   x.name[1] = prev.next_version /\ x.ddl = DDLOf(run[p].seen)

C2_Witness ==
    /\ prev.pc = "done"
    /\ run[1].pc = "skipped"
    /\ run[1].edits0 = prev.edits0

\* C3: after a run that had detected a change and stopped before update_version_info
\* saved (also when its DDL file was already written), the persisted state is the one
\* that run started from, and the next run over the same documents detects a change
\* again and gets the version number the stopped run had got.
C3_AbortRepeats ==
    \A p \in Procs :
        (/\ prev.pc \in {"aborted", "failed"}
         /\ ~prev.saved
         /\ prev.changed = "true"
         /\ run[p].pc # "idle"
         /\ run[p].seen = prev.seen) =>
            /\ run[p].base = prev.base
            /\ run[p].changed = "true"
            /\ (prev.next_version # 0 /\ run[p].pc \notin {"get_version", "aborted"}) =>
                   run[p].next_version = prev.next_version
            /\ (run[p].next_version # 0 /\ prev.next_version # 0) =>
                   run[p].next_version = prev.next_version

C3_Witness ==
    /\ prev.pc = "aborted"
    /\ prev.wrote_ddl
    /\ ~prev.saved
    /\ run[1].seen = prev.seen
    /\ run[1].pc = "done"
    /\ run[1].next_version = prev.next_version
    /\ prev.next_version >= 1

\* C4: when files_have_changed returns, it returns True exactly when some path has
\* no stored fingerprint or one that differs from the digest of its content, False
\* exactly when every path's digest equals the stored one; and the persisted state
\* is after the call what it was before.
C4_FilesHaveChanged ==
    \A p \in Procs :
        /\ run[p].changed = "true" => SomePathDiffers(run[p].base, run[p].seen)
        /\ run[p].changed = "false" =>
              \A f \in Files : /\ run[p].seen[f] # Missing
                               /\ StoredHash(run[p].base, f) = calculate_file_hash(run[p].seen[f])
        /\ (run[p].changed \in {"true", "false"}) =>
              (run[p].changed = "true" <=> SomePathDiffers(run[p].base, run[p].seen))
        /\ (run[p].pc \in {"get_version", "skipped"} \/ run[p].changed = "raise") =>
              version_file = run[p].base

C4_Witness ==
    /\ run[1].changed = "true"
    /\ run[1].base.exists
    /\ StoredHash(run[1].base, "attributes.pu") = calculate_file_hash(run[1].seen["attributes.pu"])
    /\ StoredHash(run[1].base, "tables.pu") = calculate_file_hash(run[1].seen["tables.pu"])
    /\ StoredHash(run[1].base, "er.md") # calculate_file_hash(run[1].seen["er.md"])

\* C5 (as claimed): a run in which an access to a source document failed has written
\* no DDL file and no combined file and has left the persisted state as it found it.
C5_NoPartialOutput ==
    \A p \in Procs :
        run[p].failed_access =>
            /\ ~run[p].wrote_ddl
            /\ ~run[p].wrote_combined
            /\ version_file = run[p].base

\* C6: two overlapping runs that were issued the same version number (both read the
\* same last_version) and both committed leave last_version at that number, one above
\* what they read, and the number was passed to update_version_info twice.
C6_DuplicateVersion ==
    (/\ run[1].saved /\ run[2].saved
     /\ run[1].next_version = run[2].next_version) =>
        /\ version_file.exists
        /\ version_file.data.last_version = run[1].next_version
        /\ version_file.data.last_version = load_version_info(run[1].base).last_version + 1
        /\ Len(issued) >= 2
        /\ issued[Len(issued)] = issued[Len(issued) - 1]

C6_Witness ==
    /\ run[1].pc = "done" /\ run[2].pc = "done"
    /\ run[1].changed = "true" /\ run[2].changed = "true"
    /\ run[1].next_version = 1 /\ run[2].next_version = 1
    /\ issued = <<1, 1>>
    /\ version_file.data.last_version = 1

(***************************************************************************)
(* Properties of the converter (Part II)                                   *)
(***************************************************************************)
NonSkipped(body) == SelectSeq(body, LAMBDA line : ~Skipped(line))

SameDetails(column, entry) ==
    /\ column.japanese_name = entry.japanese_name
    /\ column.data_type = entry.data_type
    /\ column.description = entry.description

\* the k-th column of the i-th table takes its details by the precedence of the claim
ResolvedAsClaimed(i, k) ==
    LET line   == NonSkipped(source.tables_content[i].body)[k]
        column == conv.tables[i].columns[k]
        ref    == BracketInLine(line, 1)
    IN IF column.name \in DOMAIN conv.attributes
       THEN SameDetails(column, conv.attributes[column.name])
       ELSE IF ref \in DOMAIN conv.attributes
       THEN SameDetails(column, conv.attributes[ref])
       ELSE /\ column.data_type = <<"VARCHAR", "(", "255", ")">>
            /\ column.japanese_name = NoText
            /\ column.description = NoText

\* C7: a column whose identifier is a key of the catalog takes display name, type
\* and description from that entry, whatever bracketed reference its line carries;
\* otherwise from the entry of the bracketed reference when that resolves; otherwise
\* its type is VARCHAR(255) and it has no display name and no description.
C7_ResolutionPrecedence ==
    phase \in {"parsed", "generated"} =>
        /\ Len(conv.tables) = Len(source.tables_content)
        /\ \A i \in 1..Len(conv.tables) :
              /\ Len(conv.tables[i].columns) = Len(NonSkipped(source.tables_content[i].body))
              /\ \A k \in 1..Len(conv.tables[i].columns) : ResolvedAsClaimed(i, k)

C7_Witness ==
    /\ phase = "parsed"
    /\ \E i \in 1..Len(conv.tables) : \E k \in 1..Len(conv.tables[i].columns) :
          LET column == conv.tables[i].columns[k]
              ref    == BracketInLine(NonSkipped(source.tables_content[i].body)[k], 1)
          IN /\ column.name \in DOMAIN conv.attributes
             /\ ref \in DOMAIN conv.attributes
             /\ ref # column.name
             /\ column.data_type = <<"serial", "(", "4", ")">>
             /\ conv.attributes[ref].data_type = <<"VARCHAR", "(", "255", ")">>

PrimaryKeyColumns(table) == SelectSeq(table.columns, LAMBDA c : c.is_primary_key)

CreateOf(name) == SelectSeq(ddl.statements, LAMBDA s : s.kind = "create" /\ s.table = name)

PrimaryKeyClauseAsClaimed(table) ==
    /\ Len(CreateOf(table.name)) = 1
    /\ LET defs    == CreateOf(table.name)[1].column_definitions
           clauses == SelectSeq(defs, LAMBDA d : d.kind = "primary_key")
           pk      == PrimaryKeyColumns(table)
       IN IF pk = <<>> THEN clauses = <<>>
          ELSE /\ Len(clauses) = 1
               /\ Len(defs) = Len(table.columns) + 1
               /\ defs[Len(defs)].kind = "primary_key"
               /\ clauses[1].constraint = <<"pk_", table.name>>
               /\ clauses[1].columns = [j \in 1..Len(pk) |-> pk[j].name]

\* C8 (as claimed): for every table generate_ddl emits one CONSTRAINT pk_<table>
\* PRIMARY KEY clause, after the last column definition, listing the primary-key
\* columns in declaration order, when the table has such columns, and none otherwise.
C8_PrimaryKeyClause ==
    phase = "generated" =>
        \A i \in 1..Len(conv.tables) : PrimaryKeyClauseAsClaimed(conv.tables[i])

HasTable(name) == \E i \in 1..Len(conv.tables) : conv.tables[i].name = name

TableNamed(name) == conv.tables[CHOOSE i \in 1..Len(conv.tables) : conv.tables[i].name = name]

\* the (table, column) pairs of the ALTER TABLE statements the claim gives a relationship
AltersAsClaimed(r) ==
    IF ~HasTable(r.from_table) \/ ~HasTable(r.to_table) THEN <<>>
    ELSE LET fk == SelectSeq(TableNamed(r.to_table).columns, LAMBDA c : c.is_foreign_key)
         IN [j \in 1..Len(fk) |-> <<r.to_table, fk[j].name, r.from_table>>]

RECURSIVE AllAltersAsClaimed(_)
AllAltersAsClaimed(rs) ==
    IF rs = <<>> THEN <<>> ELSE AltersAsClaimed(Head(rs)) \o AllAltersAsClaimed(Tail(rs))

AltersEmitted ==
    LET a == SelectSeq(ddl.statements, LAMBDA s : s.kind = "alter")
    IN [j \in 1..Len(a) |-> <<a[j].table, a[j].column, a[j].references>>]

\* C9 (as claimed): generate_ddl raises no error over relationships; a relationship
\* with an endpoint outside the table mapping adds no ALTER TABLE statement, one with
\* both endpoints in it adds one per foreign-key column of the to-table, in
\* declaration order; and every ALTER TABLE statement follows every CREATE TABLE.
C9_Relationships ==
    phase = "generated" =>
        /\ AltersEmitted = AllAltersAsClaimed(conv.relationships)
        /\ \A i, j \in 1..Len(ddl.statements) :
              (ddl.statements[i].kind = "alter" /\ ddl.statements[j].kind = "create") => j < i

\* what the claim gives for the alternate dialect
ConvertedAsClaimed(pg_type) ==
    LET base == Upper(pg_type[1])
        size == SizeInfo(pg_type)
    IN IF base \notin DOMAIN type_mapping THEN pg_type
       ELSE IF size # None /\ type_mapping[base] \notin {"CLOB", "BLOB"}
       THEN <<type_mapping[base], "(">> \o size \o <<")">>
       ELSE <<type_mapping[base]>>

\* C10 (as claimed): under postgresql convert_data_type returns its argument; under
\* oracle a type whose base is in the lookup table becomes the table's type, with the
\* size suffix of the argument unless that type is CLOB or BLOB, and a type whose
\* base is not in the table is returned unchanged; SERIAL gives NUMBER GENERATED
\* ALWAYS AS IDENTITY and VARCHAR(50) gives VARCHAR2(50).
C10_ConvertDataType ==
    typed.returned =>
        /\ typed.dialect = "postgresql" => typed.result = typed.pg_type
        /\ (typed.dialect = "oracle" /\ typed.pg_type # <<>> /\ IsWord(typed.pg_type[1])) =>
              typed.result = ConvertedAsClaimed(typed.pg_type)
        /\ (typed.dialect = "oracle" /\ typed.pg_type = <<"SERIAL">>) =>
              typed.result = <<"NUMBER GENERATED ALWAYS AS IDENTITY">>
        /\ (typed.dialect = "oracle" /\ typed.pg_type = <<"VARCHAR", "(", "50", ")">>) =>
              typed.result = <<"VARCHAR2", "(", "50", ")">>

(* ------------------------------------------------------------------------ *)
\* the text parse_combined_content was given
CombinedLines ==
    ContentLines(combine_files(source.attributes_content, source.tables_content,
                               source.er_content))

HasOperator(line) == \E op \in Operators : Contains(line, op)

\* the lines the relationship pass takes: an operator somewhere, three tokens
RelationshipLines == SelectSeq(CombinedLines, LAMBDA line : HasOperator(line) /\ Len(line) >= 3)

OperatorTokens == {<<op>> : op \in Operators}

\* C11: the relationship pass appends exactly one Relationship for every line
\* of the combined document that contains an operator token and has at least
\* three tokens, in document order and keeping duplicates: its from_table is
\* the first token, its kind is the second token and is the operator token,
\* its to_table is the third token; other lines add nothing.
C11_RelationshipPass ==
    phase # "authoring" =>
        /\ Len(conv.relationships) = Len(RelationshipLines)
        /\ \A i \in 1..Len(conv.relationships) :
              /\ conv.relationships[i].from_table = RelationshipLines[i][1]
              /\ conv.relationships[i].type = RelationshipLines[i][2]
              /\ conv.relationships[i].type \in OperatorTokens
              /\ conv.relationships[i].to_table = RelationshipLines[i][3]

\* a body line that carries primary_key / foreign_key outside the
\* primary_key(<id>) / foreign_key(<id>) notation
KeyMismatch(line) ==
    \/ Contains(line, "primary_key") /\ KeyInLine("primary_key", line, 1) = None
    \/ ~Contains(line, "primary_key") /\ Contains(line, "foreign_key")
          /\ KeyInLine("foreign_key", line, 1) = None

ColumnLines(body) == SelectSeq(body, LAMBDA line : ~Skipped(line) /\ ~KeyMismatch(line))

DeclaredAttributes ==
    {source.attributes_content[i][2] :
        i \in {j \in 1..Len(source.attributes_content) :
                  AttributeMatches(source.attributes_content[j])}}

\* C12: a line that matches no recognized pattern is skipped without a
\* record: a declaration that does not match the attribute pattern adds no
\* Attribute, and a table-body line with primary_key or foreign_key outside
\* the primary_key(<id>) / foreign_key(<id>) notation adds no Column, so every
\* Column of every parsed Table has a non-empty identifier.
C12_MismatchSkipped ==
    phase # "authoring" =>
        /\ DOMAIN conv.attributes = DeclaredAttributes
        /\ Len(conv.tables) = Len(source.tables_content)
        /\ \A i \in 1..Len(conv.tables) :
              /\ Len(conv.tables[i].columns) = Len(ColumnLines(source.tables_content[i].body))
              /\ \A k \in 1..Len(conv.tables[i].columns) :
                    conv.tables[i].columns[k].name # None

\* C13: the version state is rewritten at most once per run, and only by a
\* run that found a change and has already written its DDL file; the step of
\* files_have_changed (and with it a run that finds the inputs unchanged and
\* returns) and the step of get_next_version leave the state as it is, and
\* the former writes no DDL or combined file.
C13_StateRewrittenOnce ==
    [][/\ version_file' # version_file =>
            \E p \in Procs :
                /\ run[p].pc = "update_version" /\ run[p].changed = "true"
                /\ run[p].wrote_ddl /\ ~run[p].saved /\ run'[p].saved
                /\ \E x \in ddl_files : x.name[1] = run[p].next_version
                /\ version_file'.data.last_version = run[p].next_version
       /\ clock' # clock =>
            /\ version_file' = version_file
            /\ ddl_files' = ddl_files
            /\ combined_model' = combined_model
       /\ \A p \in Procs :
            run[p].pc = "get_version" /\ run'[p].pc = "read_attributes" =>
                version_file' = version_file]_vars

\* a run has written the state after its DDL file, and a later run found the
\* inputs unchanged and returned
C13_Witness ==
    \E p \in Procs :
        /\ run[p].pc = "skipped" /\ ~run[p].wrote_ddl /\ ~run[p].saved
        /\ run[p].base.exists /\ version_file = run[p].base
        /\ issued = <<1>>

\* the content of a source path a run read and generated its DDL from
ContentRead(r, f) ==
    CASE f = "attributes.pu" -> r.attributes_content
      [] f = "tables.pu"     -> r.tables_content
      [] OTHER               -> r.er_content

\* the run whose commit the persisted state holds
Committed(p) ==
    /\ run[p].saved
    /\ version_file.exists
    /\ version_file.data.last_version = run[p].next_version

\* C14: after a run commits, the fingerprint stored for every source path is
\* the fingerprint of the content that run read and generated its DDL from,
\* whatever edits were made while it ran; so documents that differ from what
\* the run read are found changed by the next files_have_changed.
C14_FingerprintOfContentRead ==
    \A p \in Procs :
        Committed(p) =>
            /\ \A f \in Files :
                  StoredHash(version_file, f) = calculate_file_hash(ContentRead(run[p], f))
            /\ (CanHashAll(input_files, docs)
                   /\ \E f \in Files : docs[f] # ContentRead(run[p], f)) =>
                  files_have_changed(input_files, version_file, docs) = "true"

====
